---- MODULE Spec2Model ----
(***************************************************************************)
(* The per-user posts cache of app/utils/cache.py (a cachetools TTLCache   *)
(* guarded by cache_lock) and the post service of                          *)
(* app/services/post_service.py that reads through it and invalidates it.  *)
(*                                                                         *)
(* Spec         the five CacheService operations called by concurrent      *)
(*              threads, each one "with cache_lock:" section, with the     *)
(*              clock advancing.                                           *)
(* SpecFair     Spec under fair scheduling, for termination.               *)
(* SpecService  PostService.create_post / get_user_posts / delete_post     *)
(*              run by concurrent request threads against storage and the  *)
(*              cache; every cache operation is one step (its lock         *)
(*              section).                                                  *)
(* SpecSerial   SpecService with the requests run one at a time and none   *)
(*              of them failing.                                           *)
(*                                                                         *)
(* Time is in seconds.  The TTLCache timer (time.monotonic) and            *)
(* datetime.utcnow() are read from the one clock "now".  TTLCache is       *)
(* modelled as cachetools 5 implements it: a link is expired when          *)
(* not (time < expires), a lookup of a live key moves its link to the end  *)
(* of __links, and popitem removes the first live link of __links.         *)
(***************************************************************************)
EXTENDS Integers, Sequences, FiniteSets, TLC

VARIABLES
    posts_cache,   \* the TTLCache: its links, least recently used first
    cache_lock,    \* the thread that holds cache_lock, or NoThread
    now,           \* the clock
    pc,            \* where each thread is
    frame,         \* each thread's call: operation, arguments, locals, result
    written,       \* history: per user, the last cache_user_posts and what removed it
    posts,         \* storage: the committed rows of the posts table, id -> user_id
    next_id,       \* storage: the next autoincrement id
    acked,         \* history: ids of the posts whose create_post returned
    recent,        \* history: the users with a live entry, least recently used first
    changed_at     \* history: the time of the last commit that changed the posts table, in a set

vars == <<posts_cache, cache_lock, now, pc, frame, written, posts, next_id, acked,
          recent, changed_at>>

----------------------------------------------------------------------------
(* Bounds and program constants *)

\* TTLCache(maxsize=..., ttl=300)
ttl == 300

\* TTLCache(maxsize=1000, ...): the capacity, N in this bounded model
maxsize == 2

\* the clock advances in steps of Tick seconds, up to MaxTime
Tick == 150

MaxTime == 300

\* number of rows the posts table ever receives
MaxPosts == 1

Threads == {"t1", "t2"}

NoThread == "none"

\* one user more than the cache can hold
Users == 1..(maxsize + 1)

\* Python's None
None == [none |-> TRUE]

----------------------------------------------------------------------------
(* PostsListResponse and the payloads the cache is given *)

PostsListResponse(ids) == [posts |-> ids, total_count |-> Len(ids)]

\* payloads used when the cache operations are called directly
Payloads == {PostsListResponse(<<>>), PostsListResponse(<<1>>)}

----------------------------------------------------------------------------
(* cachetools.TTLCache, as posts_cache uses it.  A cache is the sequence   *)
(* of its links in the order of the __links OrderedDict (least recently    *)
(* used first); each link is [key, value, expires].                        *)

\* faulty variant: the keys of two users collide
get_user_posts_cache_key_collide(user_id) == <<"user_posts_", user_id % 2>>

\* faulty variant: every user shares one key
get_user_posts_cache_key_shared(user_id) == <<"user_posts_", 0>>

\* f"user_posts_{user_id}"
get_user_posts_cache_key(user_id) == <<"user_posts_", user_id>>

\* timedelta(minutes=5), in seconds
timedelta_minutes(m) == m * 60

\* faulty variant: a link still counts as fresh at its expiry time
ExpiredStale(link, time) == link.expires < time

\* a link has expired: not (time < link.expires)
Expired(link, time) == ~(time < link.expires)

\* TTLCache.expire(time): drop every expired link
TTLCache_expire(c, time) == SelectSeq(c, LAMBDA l : ~Expired(l, time))

HasKey(c, key) == \E i \in DOMAIN c : c[i].key = key

LinkOf(c, key) == c[CHOOSE i \in DOMAIN c : c[i].key = key]

Without(c, key) == SelectSeq(c, LAMBDA l : l.key # key)

\* TTLCache.__contains__: present and time < link.expires
TTLCache_contains(c, key, time) == HasKey(c, key) /\ ~Expired(LinkOf(c, key), time)

\* Cache.get(key): "if key in self: return self[key]" - the value, or None
TTLCache_get(c, key, time) ==
    IF TTLCache_contains(c, key, time) THEN LinkOf(c, key).value ELSE None

\* faulty variant: the lookup removes the link it returns
TTLCache_touch_pop(c, key, time) ==
    IF TTLCache_contains(c, key, time) THEN Without(c, key) ELSE c

\* faulty variant: a lookup pushes the expiry of the link it returns back by ttl
TTLCache_touch_extend(c, key, time) ==
    IF TTLCache_contains(c, key, time)
    THEN Append(Without(c, key),
                [LinkOf(c, key) EXCEPT !.expires = LinkOf(c, key).expires + ttl])
    ELSE c

\* faulty variant: a lookup leaves the link where it is
TTLCache_touch_still(c, key, time) == c

\* faulty variant: a lookup also restarts the TTL of the link it returns
TTLCache_touch_refresh(c, key, time) ==
    IF TTLCache_contains(c, key, time)
    THEN Append(Without(c, key), [LinkOf(c, key) EXCEPT !.expires = time + ttl])
    ELSE c

\* the cache after Cache.get(key): __getitem__ moves the link of a live key to
\* the end of __links
TTLCache_touch(c, key, time) ==
    IF TTLCache_contains(c, key, time)
    THEN Append(Without(c, key), LinkOf(c, key))
    ELSE c

\* TTLCache.popitem(): expire, then remove the first key of __links
TTLCache_popitem(c, time) == Tail(TTLCache_expire(c, time))

\* Cache.__setitem__'s "while currsize + size > maxsize: self.popitem()"
RECURSIVE MakeRoom(_, _)
MakeRoom(c, time) ==
    IF Len(c) + 1 > maxsize THEN MakeRoom(TTLCache_popitem(c, time), time) ELSE c

\* faulty variant: never makes room
TTLCache_setitem_noevict(c, key, value, time) ==
    Append(Without(TTLCache_expire(c, time), key),
           [key |-> key, value |-> value, expires |-> time + ttl])

\* faulty variant: an existing key keeps its old value and expiry
TTLCache_setitem_keep(c, key, value, time) ==
    LET live == TTLCache_expire(c, time)
        room == IF HasKey(live, key) THEN live ELSE MakeRoom(live, time)
    IN  IF HasKey(room, key) THEN room
        ELSE Append(room, [key |-> key, value |-> value, expires |-> time + ttl])

\* faulty variant: makes room even when the key is already there
TTLCache_setitem_evictalways(c, key, value, time) ==
    LET room == MakeRoom(TTLCache_expire(c, time), time)
    IN  Append(Without(room, key),
               [key |-> key, value |-> value, expires |-> time + ttl])

\* faulty variant: the link of an existing key is left in place beside the new one
TTLCache_setitem_dup(c, key, value, time) ==
    LET live == TTLCache_expire(c, time)
        room == IF HasKey(live, key) THEN live ELSE MakeRoom(live, time)
    IN  Append(room, [key |-> key, value |-> value, expires |-> time + ttl])

\* TTLCache.__setitem__: expire, make room if the key is new, store the value
\* and link it last with expires = time + ttl
TTLCache_setitem(c, key, value, time) ==
    LET live == TTLCache_expire(c, time)
        room == IF HasKey(live, key) THEN live ELSE MakeRoom(live, time)
    IN  Append(Without(room, key),
               [key |-> key, value |-> value, expires |-> time + ttl])

\* TTLCache.__delitem__: KeyError if the key is not there; otherwise the link
\* is removed, and KeyError is raised all the same if it had expired
TTLCache_delitem(c, key, time) ==
    IF ~HasKey(c, key) THEN [cache |-> c, raised |-> "KeyError"]
    ELSE [cache |-> Without(c, key),
          raised |-> IF Expired(LinkOf(c, key), time) THEN "KeyError" ELSE "no"]

\* faulty variant: only the expired links are removed
TTLCache_clear_expired(c, time) == TTLCache_expire(c, time)

\* TTLCache.clear()
TTLCache_clear(c, time) == <<>>

\* TTLCache.__len__: the links that have not expired
TTLCache_len(c, time) == Len(TTLCache_expire(c, time))

----------------------------------------------------------------------------
(* CacheService: what each operation does inside its "with cache_lock:"    *)
(* section, as a function of the cache and the time.                       *)

\* the dict cache_user_posts stores
CacheEntry(posts_data, time) ==
    [data |-> posts_data, cached_at |-> time,
     expires_at |-> time + timedelta_minutes(5)]

\* faulty variant: the test looks at the cached list, and an empty list is false
TruthyData(v) == v # None /\ v.data.total_count > 0

\* "if cached_data:" - a stored dict has three keys and is true; None is false
Truthy(v) == v # None

\* get_cached_posts: what it returns - posts_cache.get(cache_key) if that is
\* true, else None
CachedPostsRet(c, user_id, time) ==
    LET cached_data == TTLCache_get(c, get_user_posts_cache_key(user_id), time)
    IN  IF Truthy(cached_data) THEN cached_data ELSE None

\* get_cached_posts: what it returns and the cache it leaves
CachedPosts(c, user_id, time) ==
    [ret |-> CachedPostsRet(c, user_id, time),
     cache |-> TTLCache_touch(c, get_user_posts_cache_key(user_id), time)]

\* cache_user_posts: posts_cache[cache_key] = {...}
CacheAfterPut(c, user_id, posts_data, time) ==
    TTLCache_setitem(c, get_user_posts_cache_key(user_id),
                     CacheEntry(posts_data, time), time)

\* faulty variant: the whole cache is dropped
InvalidateAll(c, user_id, time) == [cache |-> <<>>, exc |-> "no", caught |-> "no"]

\* faulty variant: the KeyError of a missing or expired key is not caught
InvalidateUncaught(c, user_id, time) ==
    LET del == TTLCache_delitem(c, get_user_posts_cache_key(user_id), time)
    IN  [cache |-> del.cache, exc |-> del.raised, caught |-> "no"]

\* invalidate_user_posts_cache: "try: del posts_cache[cache_key]
\* except KeyError: pass" - the cache after, the exception that leaves the
\* function and the one it caught
Invalidate(c, user_id, time) ==
    LET del == TTLCache_delitem(c, get_user_posts_cache_key(user_id), time)
    IN  [cache |-> del.cache, exc |-> "no", caught |-> del.raised]

\* faulty variant: cache_size counts the expired links that are still there
CacheInfoPhysical(c, time) ==
    [cache_size |-> Len(c), max_size |-> maxsize,
     ttl_seconds |-> ttl, current_time |-> time]

\* get_cache_info: the cache after len(posts_cache) - TTLCache.__len__ drops
\* the expired links before it counts
CacheAfterInfo(c, time) == TTLCache_expire(c, time)

\* get_cache_info: the dict it returns (current_time as the clock reading)
CacheInfo(c, time) ==
    [cache_size |-> TTLCache_len(c, time), max_size |-> maxsize,
     ttl_seconds |-> ttl, current_time |-> time]

----------------------------------------------------------------------------
(* History kept for the properties: per user the last cache_user_posts     *)
(* (payload, time), kept while fewer than ttl seconds have passed since it *)
(* and neither invalidate_user_posts_cache(user) nor clear_all_cache() has *)
(* run; "evicted" tells that a put of a new key has removed its entry.     *)

WrittenAfterPut(w, before, after, user_id, posts_data, time) ==
    [u \in Users |->
        IF u = user_id
        THEN [data |-> posts_data, at |-> time, evicted |-> FALSE]
        ELSE IF /\ w[u] # None
                /\ TTLCache_contains(before, get_user_posts_cache_key(u), time)
                /\ ~HasKey(after, get_user_posts_cache_key(u))
             THEN [w[u] EXCEPT !.evicted = TRUE, !.data = None]
             ELSE w[u]]

WrittenAfterInvalidate(w, user_id) ==
    [u \in Users |-> IF u = user_id THEN None ELSE w[u]]

WrittenAfterClear(w) == [u \in Users |-> None]

\* a put is forgotten once ttl seconds have passed since it
WrittenAt(w, time) ==
    [u \in Users |-> IF w[u] # None /\ w[u].at + ttl <= time THEN None ELSE w[u]]

\* The users with a live entry in the order of their last use, where a use is
\* a cache_user_posts or a get_cached_posts that found the entry; the first
\* is the one a cache_user_posts of a new user removes from a full cache.
RecentWithout(r, user_id) == SelectSeq(r, LAMBDA u : u # user_id)

RecentAfterUse(r, user_id) == Append(RecentWithout(r, user_id), user_id)

RecentAfterPut(r, user_id) ==
    IF (\E i \in DOMAIN r : r[i] = user_id) \/ Len(r) < maxsize
    THEN RecentAfterUse(r, user_id)
    ELSE Append(Tail(r), user_id)

\* an entry leaves the order when it expires
RecentAt(r, w) == SelectSeq(r, LAMBDA u : w[u] # None)

----------------------------------------------------------------------------
(* Spec: threads calling the CacheService operations *)

NoFrame == [op |-> "none"]

CacheCalls ==
    {[op |-> "get_cached_posts", user_id |-> u] : u \in Users}
    \cup {[op |-> "cache_user_posts", user_id |-> u, posts_data |-> d] :
            u \in Users, d \in Payloads}
    \cup {[op |-> "invalidate_user_posts_cache", user_id |-> u] : u \in Users}
    \cup {[op |-> "clear_all_cache"], [op |-> "get_cache_info"]}

Init ==
    /\ posts_cache = <<>>
    /\ cache_lock = NoThread
    /\ now = 0
    /\ pc = [t \in Threads |-> "idle"]
    /\ frame = [t \in Threads |-> NoFrame]
    /\ written = [u \in Users |-> None]
    /\ posts = [i \in 1..MaxPosts |-> 0]
    /\ next_id = 1
    /\ acked = {}
    /\ recent = <<>>
    /\ changed_at = {}

storage == <<posts, next_id, acked, changed_at>>

\* a thread calls one of the five operations and reaches "with cache_lock:";
\* it touches nothing shared before it holds the lock
Call(t) ==
    /\ pc[t] = "idle"
    /\ pc' = [pc EXCEPT ![t] = "wait"]
    /\ UNCHANGED <<posts_cache, cache_lock, now, frame, written, recent, storage>>

\* faulty variant: the section is entered without waiting for the lock
AcquireUnguarded(t) ==
    /\ pc[t] = "wait"
    /\ cache_lock' = t
    /\ \E call \in CacheCalls : frame' = [frame EXCEPT ![t] = call]
    /\ pc' = [pc EXCEPT ![t] = "locked"]
    /\ UNCHANGED <<posts_cache, now, written, recent, storage>>

\* cache_lock.__enter__: blocks while another thread holds the lock.  The
\* operation and its arguments are recorded as the thread enters the section.
Acquire(t) ==
    /\ pc[t] = "wait"
    /\ cache_lock = NoThread
    /\ cache_lock' = t
    /\ \E call \in CacheCalls : frame' = [frame EXCEPT ![t] = call]
    /\ pc' = [pc EXCEPT ![t] = "locked"]
    /\ UNCHANGED <<posts_cache, now, written, recent, storage>>

Locked(t, op) == pc[t] = "locked" /\ frame[t].op = op

Finish(t, ret, exc, caught) ==
    /\ frame' = [frame EXCEPT ![t] =
                    [op |-> frame[t].op, args |-> frame[t], ret |-> ret,
                     exc |-> exc, caught |-> caught]]
    /\ pc' = [pc EXCEPT ![t] = "exit"]

get_cached_posts(t) ==
    /\ Locked(t, "get_cached_posts")
    /\ LET r == CachedPosts(posts_cache, frame[t].user_id, now)
       IN  /\ posts_cache' = r.cache
           /\ recent' = IF Truthy(r.ret) THEN RecentAfterUse(recent, frame[t].user_id)
                                         ELSE recent
           /\ Finish(t, r.ret, "no", "no")
    /\ UNCHANGED <<cache_lock, now, written, storage>>

cache_user_posts(t) ==
    /\ Locked(t, "cache_user_posts")
    /\ posts_cache' = CacheAfterPut(posts_cache, frame[t].user_id, frame[t].posts_data, now)
    /\ written' = WrittenAfterPut(written, posts_cache, posts_cache',
                                  frame[t].user_id, frame[t].posts_data, now)
    /\ recent' = RecentAfterPut(recent, frame[t].user_id)
    /\ Finish(t, None, "no", "no")
    /\ UNCHANGED <<cache_lock, now, storage>>

invalidate_user_posts_cache(t) ==
    /\ Locked(t, "invalidate_user_posts_cache")
    /\ LET r == Invalidate(posts_cache, frame[t].user_id, now)
       IN  /\ posts_cache' = r.cache
           /\ Finish(t, None, r.exc, r.caught)
    /\ written' = WrittenAfterInvalidate(written, frame[t].user_id)
    /\ recent' = RecentWithout(recent, frame[t].user_id)
    /\ UNCHANGED <<cache_lock, now, storage>>

clear_all_cache(t) ==
    /\ Locked(t, "clear_all_cache")
    /\ posts_cache' = TTLCache_clear(posts_cache, now)
    /\ written' = WrittenAfterClear(written)
    /\ recent' = <<>>
    /\ Finish(t, None, "no", "no")
    /\ UNCHANGED <<cache_lock, now, storage>>

get_cache_info(t) ==
    /\ Locked(t, "get_cache_info")
    /\ posts_cache' = CacheAfterInfo(posts_cache, now)
    /\ Finish(t, CacheInfo(posts_cache, now), "no", "no")
    /\ UNCHANGED <<cache_lock, now, written, recent, storage>>

\* faulty variant: the lock stays held when the section caught a KeyError
ReleaseLeak(t) ==
    /\ pc[t] = "exit"
    /\ cache_lock' = IF cache_lock = t /\ frame[t].caught = "no" THEN NoThread ELSE cache_lock
    /\ pc' = [pc EXCEPT ![t] = "idle"]
    /\ frame' = [frame EXCEPT ![t] = NoFrame]
    /\ UNCHANGED <<posts_cache, now, written, recent, storage>>

\* cache_lock.__exit__, and the operation returns
Release(t) ==
    /\ pc[t] = "exit"
    /\ cache_lock' = IF cache_lock = t THEN NoThread ELSE cache_lock
    /\ pc' = [pc EXCEPT ![t] = "idle"]
    /\ frame' = [frame EXCEPT ![t] = NoFrame]
    /\ UNCHANGED <<posts_cache, now, written, recent, storage>>

\* the clock advances
Advance ==
    /\ now + Tick <= MaxTime
    /\ now' = now + Tick
    /\ written' = WrittenAt(written, now')
    /\ recent' = RecentAt(recent, written')
    /\ UNCHANGED <<posts_cache, cache_lock, pc, frame, storage>>

Next ==
    \/ \E t \in Threads : Call(t)
    \/ \E t \in Threads : Acquire(t)
    \/ \E t \in Threads : get_cached_posts(t)
    \/ \E t \in Threads : cache_user_posts(t)
    \/ \E t \in Threads : invalidate_user_posts_cache(t)
    \/ \E t \in Threads : clear_all_cache(t)
    \/ \E t \in Threads : get_cache_info(t)
    \/ \E t \in Threads : Release(t)
    \/ Advance

Spec == Init /\ [][Next]_vars

\* Spec under fair scheduling: a thread inside a lock section keeps running
\* (the section has no loop and no blocking call), and a thread that waits
\* for cache_lock gets it if the lock is free again and again.  Nothing
\* obliges a thread to call the cache, or the clock to advance.
Fairness ==
    \A t \in Threads :
        /\ SF_vars(Acquire(t))
        /\ WF_vars(get_cached_posts(t))
        /\ WF_vars(cache_user_posts(t))
        /\ WF_vars(invalidate_user_posts_cache(t))
        /\ WF_vars(clear_all_cache(t))
        /\ WF_vars(get_cache_info(t))
        /\ WF_vars(Release(t))

SpecFair == Spec /\ Fairness

----------------------------------------------------------------------------
(* SpecService: PostService called by concurrent request threads, each     *)
(* with its own database session.  posts[id] is the user_id of the         *)
(* committed row id, 0 when there is no such row.  A step is one statement *)
(* that touches storage or the cache; a cache operation is one step, its   *)
(* "with cache_lock:" section.  A database call may raise.                 *)

PostIds == 1..MaxPosts

Max(S) == CHOOSE x \in S : \A y \in S : y <= x

\* order_by(Post.created_at.desc()): rows are created in id order
RECURSIVE NewestFirst(_)
NewestFirst(S) == IF S = {} THEN <<>> ELSE <<Max(S)>> \o NewestFirst(S \ {Max(S)})

\* db.query(Post).filter(Post.user_id == user_id).order_by(...).all(), as
\* the PostsListResponse built from it
QueryUserPosts(rows, user_id) ==
    PostsListResponse(NewestFirst({i \in PostIds : rows[i] = user_id}))

Elements(seq) == {seq[i] : i \in DOMAIN seq}

ServiceFrame(op, user_id, post_id) ==
    [op |-> op, user_id |-> user_id, post_id |-> post_id, local |-> None,
     committed |-> FALSE, invalidated |-> FALSE, raced |-> FALSE,
     queried |-> 0, fault |-> "no",
     status |-> "running", result |-> None]

\* the call ends: status is "ok" or the HTTP error raised; its locals are gone
Done(t, f, status, result) ==
    /\ frame' = [frame EXCEPT ![t] = [f EXCEPT !.status = status, !.result = result, !.local = None]]
    /\ pc' = [pc EXCEPT ![t] = "done"]

\* an invalidate_user_posts_cache(user_id) by thread t: it is recorded in the
\* frame of every other thread that has queried storage for user_id and not
\* yet stored the result
FramesAfterInvalidate(t, mine, user_id) ==
    [s \in Threads |->
        IF s = t THEN mine
        ELSE IF pc[s] = "get_populate" /\ frame[s].user_id = user_id
             THEN [frame[s] EXCEPT !.raced = TRUE]
             ELSE frame[s]]

\* get_user_posts: cached_posts = CacheService.get_cached_posts(user_id);
\* "if cached_posts: return cached_posts['data']"
\* faulty variant: the cache is not consulted
get_user_posts_check_nocache(t) ==
    /\ pc[t] = "idle"
    /\ \E u \in Users :
          /\ frame' = [frame EXCEPT ![t] = ServiceFrame("get_user_posts", u, 0)]
          /\ pc' = [pc EXCEPT ![t] = "get_query"]
    /\ UNCHANGED <<posts_cache, cache_lock, now, written, recent, storage>>

\* get_user_posts has no try block: an exception that leaves a cache
\* operation leaves get_user_posts, and PostController.get_posts turns it
\* into HTTP 500
get_user_posts_check(t) ==
    /\ pc[t] = "idle"
    /\ \E u \in Users, outcome \in {"ok", "raise"} :
          LET r == CachedPosts(posts_cache, u, now)
              f == ServiceFrame("get_user_posts", u, 0)
          IN  IF outcome = "raise"
              THEN /\ posts_cache' = posts_cache
                   /\ Done(t, [f EXCEPT !.fault = "get_cached_posts"], "500", None)
              ELSE /\ posts_cache' = r.cache
                   /\ IF Truthy(r.ret)
                      THEN Done(t, f, "ok", r.ret.data)
                      ELSE /\ frame' = [frame EXCEPT ![t] = f]
                           /\ pc' = [pc EXCEPT ![t] = "get_query"]
    /\ UNCHANGED <<cache_lock, now, written, recent, storage>>

\* posts = db.query(Post)...all(); posts_response = PostsListResponse(...)
get_user_posts_query(t) ==
    /\ pc[t] = "get_query"
    /\ frame' = [frame EXCEPT ![t].local = QueryUserPosts(posts, frame[t].user_id),
                              ![t].queried = frame[t].queried + 1]
    /\ pc' = [pc EXCEPT ![t] = "get_populate"]
    /\ UNCHANGED <<posts_cache, cache_lock, now, written, recent, storage>>

\* CacheService.cache_user_posts(user_id, posts_response); return posts_response
\* an exception that leaves cache_user_posts leaves get_user_posts (-> HTTP 500)
get_user_posts_populate(t) ==
    /\ pc[t] = "get_populate"
    /\ \E outcome \in {"ok", "raise"} :
          IF outcome = "raise"
          THEN /\ posts_cache' = posts_cache
               /\ Done(t, [frame[t] EXCEPT !.fault = "cache_user_posts"], "500", None)
          ELSE /\ posts_cache' = CacheAfterPut(posts_cache, frame[t].user_id, frame[t].local, now)
               /\ Done(t, frame[t], "ok", frame[t].local)
    /\ UNCHANGED <<cache_lock, now, written, recent, storage>>

\* create_post: db.add(db_post); db.commit() - the row is committed, or the
\* call raises (IntegrityError -> 400, anything else -> 500) after rollback
create_post_commit(t) ==
    /\ pc[t] = "idle"
    /\ next_id <= MaxPosts
    /\ \E u \in Users, outcome \in {"ok", "400", "500"} :
          LET f == ServiceFrame("create_post", u, next_id)
          IN  IF outcome = "ok"
              THEN /\ posts' = [posts EXCEPT ![next_id] = u]
                   /\ next_id' = next_id + 1
                   /\ changed_at' = {now}
                   /\ frame' = [frame EXCEPT ![t] = [f EXCEPT !.committed = TRUE]]
                   /\ pc' = [pc EXCEPT ![t] = "create_refresh"]
              ELSE /\ Done(t, [f EXCEPT !.post_id = 0], outcome, None)
                   /\ UNCHANGED <<posts, next_id, changed_at>>
    /\ UNCHANGED <<posts_cache, cache_lock, now, written, recent, acked>>

\* db.refresh(db_post): reads the row back; raises when the row is gone or
\* the database fails, and then "except Exception: db.rollback(); raise 500"
create_post_refresh(t) ==
    /\ pc[t] = "create_refresh"
    /\ \E outcome \in {"ok", "500"} :
          IF outcome = "ok" /\ posts[frame[t].post_id] # 0
          THEN /\ pc' = [pc EXCEPT ![t] = "create_invalidate"]
               /\ UNCHANGED frame
          ELSE Done(t, frame[t], "500", None)
    /\ UNCHANGED <<posts_cache, cache_lock, now, written, recent, storage>>

\* faulty variant: create_post returns without invalidating
create_post_noinvalidate(t) ==
    /\ pc[t] = "create_invalidate"
    /\ frame' = [frame EXCEPT ![t] = [frame[t] EXCEPT !.invalidated = TRUE, !.status = "ok",
                                                      !.result = frame[t].post_id]]
    /\ pc' = [pc EXCEPT ![t] = "done"]
    /\ acked' = acked \cup {frame[t].post_id}
    /\ UNCHANGED <<posts_cache, cache_lock, now, written, recent, posts, next_id, changed_at>>

\* CacheService.invalidate_user_posts_cache(user_id); return db_post
create_post_invalidate(t) ==
    /\ pc[t] = "create_invalidate"
    /\ posts_cache' = Invalidate(posts_cache, frame[t].user_id, now).cache
    /\ frame' = FramesAfterInvalidate(t,
                    [frame[t] EXCEPT !.invalidated = TRUE, !.status = "ok",
                                     !.result = frame[t].post_id],
                    frame[t].user_id)
    /\ pc' = [pc EXCEPT ![t] = "done"]
    /\ acked' = acked \cup {frame[t].post_id}
    /\ UNCHANGED <<cache_lock, now, written, recent, posts, next_id, changed_at>>

\* faulty variant: the cache of the user is invalidated when no post is found
delete_post_find_invalidates(t) ==
    /\ pc[t] = "idle"
    /\ \E u \in Users, id \in PostIds :
          LET f == ServiceFrame("delete_post", u, id)
          IN  IF posts[id] = u
              THEN /\ frame' = [frame EXCEPT ![t] = f]
                   /\ pc' = [pc EXCEPT ![t] = "delete_commit"]
                   /\ UNCHANGED posts_cache
              ELSE /\ Done(t, f, "ok", FALSE)
                   /\ posts_cache' = Invalidate(posts_cache, u, now).cache
    /\ UNCHANGED <<cache_lock, now, written, recent, storage>>

\* delete_post: post = db.query(Post).filter(id, user_id).first();
\* "if not post: return False"
delete_post_find(t) ==
    /\ pc[t] = "idle"
    /\ \E u \in Users, id \in PostIds :
          LET f == ServiceFrame("delete_post", u, id)
          IN  IF posts[id] = u
              THEN /\ frame' = [frame EXCEPT ![t] = f]
                   /\ pc' = [pc EXCEPT ![t] = "delete_commit"]
              ELSE Done(t, f, "ok", FALSE)
    /\ UNCHANGED <<posts_cache, cache_lock, now, written, recent, storage>>

\* db.delete(post); db.commit() - the row is gone, or the call raises and
\* "except Exception: db.rollback(); raise 500"
delete_post_commit(t) ==
    /\ pc[t] = "delete_commit"
    /\ \E outcome \in {"ok", "500"} :
          IF outcome = "ok"
          THEN /\ posts' = [posts EXCEPT ![frame[t].post_id] = 0]
               /\ changed_at' = IF posts[frame[t].post_id] # 0 THEN {now} ELSE changed_at
               /\ frame' = [frame EXCEPT ![t].committed = (posts[frame[t].post_id] # 0)]
               /\ pc' = [pc EXCEPT ![t] = "delete_invalidate"]
          ELSE /\ Done(t, frame[t], "500", None)
               /\ UNCHANGED <<posts, changed_at>>
    /\ UNCHANGED <<posts_cache, cache_lock, now, written, recent, next_id, acked>>

\* CacheService.invalidate_user_posts_cache(user_id); return True
delete_post_invalidate(t) ==
    /\ pc[t] = "delete_invalidate"
    /\ posts_cache' = Invalidate(posts_cache, frame[t].user_id, now).cache
    /\ frame' = FramesAfterInvalidate(t,
                    [frame[t] EXCEPT !.invalidated = TRUE, !.status = "ok",
                                     !.result = TRUE],
                    frame[t].user_id)
    /\ pc' = [pc EXCEPT ![t] = "done"]
    /\ UNCHANGED <<cache_lock, now, written, recent, storage>>

\* the request is answered and the thread takes the next one
Return(t) ==
    /\ pc[t] = "done"
    /\ pc' = [pc EXCEPT ![t] = "idle"]
    /\ frame' = [frame EXCEPT ![t] = NoFrame]
    /\ UNCHANGED <<posts_cache, cache_lock, now, written, recent, storage>>

NextService ==
    \/ \E t \in Threads : get_user_posts_check(t)
    \/ \E t \in Threads : get_user_posts_query(t)
    \/ \E t \in Threads : get_user_posts_populate(t)
    \/ \E t \in Threads : create_post_commit(t)
    \/ \E t \in Threads : create_post_refresh(t)
    \/ \E t \in Threads : create_post_invalidate(t)
    \/ \E t \in Threads : delete_post_find(t)
    \/ \E t \in Threads : delete_post_commit(t)
    \/ \E t \in Threads : delete_post_invalidate(t)
    \/ \E t \in Threads : Return(t)
    \/ Advance

SpecService == Init /\ [][NextService]_vars

\* SpecSerial: the requests of SpecService run one at a time and none of
\* them fails.  A thread takes a step only while every other thread is
\* between requests, and only a step that does not end its call in an error.
Alone(t) == \A s \in Threads \ {t} : pc[s] = "idle"

Succeeds(t) == frame[t].op = "none" \/ frame[t].status \notin {"400", "500"}

NextSerial ==
    \/ \E t \in Threads : Alone(t) /\ get_user_posts_check(t) /\ Succeeds(t)'
    \/ \E t \in Threads : Alone(t) /\ get_user_posts_query(t) /\ Succeeds(t)'
    \/ \E t \in Threads : Alone(t) /\ get_user_posts_populate(t) /\ Succeeds(t)'
    \/ \E t \in Threads : Alone(t) /\ create_post_commit(t) /\ Succeeds(t)'
    \/ \E t \in Threads : Alone(t) /\ create_post_refresh(t) /\ Succeeds(t)'
    \/ \E t \in Threads : Alone(t) /\ create_post_invalidate(t) /\ Succeeds(t)'
    \/ \E t \in Threads : Alone(t) /\ delete_post_find(t) /\ Succeeds(t)'
    \/ \E t \in Threads : Alone(t) /\ delete_post_commit(t) /\ Succeeds(t)'
    \/ \E t \in Threads : Alone(t) /\ delete_post_invalidate(t) /\ Succeeds(t)'
    \/ \E t \in Threads : Alone(t) /\ Return(t)
    \/ Advance

SpecSerial == Init /\ [][NextSerial]_vars

----------------------------------------------------------------------------
(* Properties of the cache (checked under Spec) *)

\* what get_cached_posts(user_id) returns if it runs now
GetResult(user_id) == CachedPostsRet(posts_cache, user_id, now)

\* the links a lookup can still find, and their keys
Live == TTLCache_expire(posts_cache, now)

LiveKeys == {Live[i].key : i \in DOMAIN Live}

AtExit(t, op) == pc[t] = "exit" /\ frame[t].op = op

\* C2, as the claim states it: after cache_user_posts(U, L), while fewer than
\* 300 s have passed and neither invalidate_user_posts_cache(U) nor
\* clear_all_cache() has run, get_cached_posts(U) returns the entry with payload L
C2_WriteThenRead_Original ==
    \A u \in Users :
        (written[u] # None /\ now < written[u].at + ttl)
        => LET got == GetResult(u)
           IN  got # None /\ got.data = written[u].data

\* C2, amended: the same, provided also that the entry of U has not been
\* evicted by a cache_user_posts of a new key into a full cache
C2_WriteThenRead ==
    \A u \in Users :
        (written[u] # None /\ now < written[u].at + ttl /\ ~written[u].evicted)
        => LET got == GetResult(u)
           IN  got # None /\ got.data = written[u].data

C2_Witness ==
    \E t \in Threads, u, v \in Users :
        /\ AtExit(t, "get_cached_posts") /\ frame[t].args.user_id = u
        /\ written[u] # None /\ ~written[u].evicted
        /\ written[u].at < now
        /\ frame[t].ret # None /\ frame[t].ret.data = written[u].data
        /\ v # u /\ written[v] # None /\ ~written[v].evicted
        /\ written[v].at > written[u].at

\* C3: a lookup never returns an entry at or past its expiry time: whatever
\* get_cached_posts can return has now < expires_at = cached_at + 300, and a
\* link still in the cache 300 s or more after it was stored is not returned
C3_TTLExpiry ==
    \A u \in Users :
        LET got == GetResult(u)
        IN  /\ got # None
               => /\ now < got.expires_at
                  /\ got.expires_at = got.cached_at + ttl
            /\ \A i \in DOMAIN posts_cache :
                  (/\ posts_cache[i].key = get_user_posts_cache_key(u)
                   /\ now >= posts_cache[i].value.cached_at + ttl)
                  => got = None

C3_Witness ==
    \E t \in Threads, i \in DOMAIN posts_cache :
        /\ now >= posts_cache[i].value.cached_at + ttl
        /\ AtExit(t, "get_cached_posts")
        /\ get_user_posts_cache_key(frame[t].args.user_id) = posts_cache[i].key
        /\ frame[t].ret = None

\* C4: every invalidate_user_posts_cache(U) ends without an error and leaves
\* get_cached_posts(U) returning None; when U had no entry a lookup could
\* find, the entries a lookup can find are the same before and after
C4_Invalidation ==
    [][\A t \in Threads, u \in Users :
          (invalidate_user_posts_cache(t) /\ frame[t].user_id = u)
          => /\ frame'[t].exc = "no"
             /\ GetResult(u)' = None
             /\ (GetResult(u) = None => Live' = Live)]_vars

C4_Witness ==
    \E t \in Threads :
        /\ AtExit(t, "invalidate_user_posts_cache")
        /\ frame[t].exc = "no" /\ frame[t].caught = "no"
        /\ GetResult(frame[t].args.user_id) = None
        /\ posts_cache # <<>>

\* C5: the cache never holds more than maxsize entries, and get_cache_info
\* never reports a cache_size above max_size
C5_CapacityBound ==
    /\ Len(posts_cache) <= maxsize
    /\ CacheInfo(posts_cache, now).cache_size <= maxsize
    /\ \A t \in Threads :
          AtExit(t, "get_cache_info") => frame[t].ret.cache_size <= frame[t].ret.max_size

C5_Witness ==
    \E t \in Threads, v \in Users :
        /\ AtExit(t, "get_cache_info")
        /\ frame[t].ret.cache_size = maxsize
        /\ written[v] # None /\ written[v].evicted

\* C6: a cache_user_posts into a cache that holds maxsize unexpired keys
\* removes exactly one entry and adds the new one when its key is new (the
\* size stays maxsize), and removes no entry when its key is already there
C6_OneEviction ==
    [][\A t \in Threads :
          (cache_user_posts(t) /\ Len(Live) = maxsize)
          => LET key == get_user_posts_cache_key(frame[t].user_id)
             IN  IF key \in LiveKeys
                 THEN LiveKeys' = LiveKeys
                 ELSE /\ Cardinality(LiveKeys \ LiveKeys') = 1
                      /\ LiveKeys' \ LiveKeys = {key}
                      /\ Len(Live') = maxsize]_vars

C6_Witness ==
    \E t \in Threads, v \in Users :
        /\ AtExit(t, "cache_user_posts")
        /\ written[frame[t].args.user_id] # None
        /\ ~written[frame[t].args.user_id].evicted
        /\ written[frame[t].args.user_id].at = now
        /\ written[v] # None /\ written[v].evicted /\ written[v].at = now
        /\ Len(Live) = maxsize

\* C7: whatever order concurrent cache_user_posts(U, Li) and
\* invalidate_user_posts_cache(U) take the lock in, the entry of U is absent
\* or is exactly the entry stored by the cache_user_posts that ran last
C7_LastPutWins ==
    \A u \in Users :
        LET got == GetResult(u)
        IN  got # None
            => /\ written[u] # None
               /\ ~written[u].evicted
               /\ got = CacheEntry(written[u].data, written[u].at)

C7_Witness ==
    \E t1, t2 \in Threads, u \in Users :
        /\ t1 # t2
        /\ AtExit(t1, "cache_user_posts") /\ frame[t1].args.user_id = u
        /\ pc[t2] = "wait"
        /\ Len(posts_cache) = 1
        /\ GetResult(u) = CacheEntry(frame[t1].args.posts_data, now)
        /\ frame[t1].args.posts_data = PostsListResponse(<<1>>)

\* C8: at most one thread is inside a cache_lock section, and it is the one
\* that holds the lock
InSection(t) == pc[t] \in {"locked", "exit"}

C8_MutualExclusion ==
    /\ Cardinality({t \in Threads : InSection(t)}) <= 1
    /\ \A t \in Threads : InSection(t) => cache_lock = t

C8_Witness ==
    \E t1, t2 \in Threads :
        /\ pc[t1] = "locked" /\ cache_lock = t1
        /\ pc[t2] = "wait"

\* C11: get_cached_posts(U) returns None for every user U for which no
\* cache_user_posts(U, .) has run - not ever, and also not since the last
\* invalidate_user_posts_cache(U), clear_all_cache() or expiry of its entry;
\* in particular every lookup of the empty cache returns None
C11_NoPutNoEntry ==
    /\ \A u \in Users : written[u] = None => GetResult(u) = None
    /\ posts_cache = <<>> => \A u \in Users : GetResult(u) = None

C11_Witness ==
    \E t \in Threads, v \in Users :
        /\ AtExit(t, "get_cached_posts")
        /\ written[frame[t].args.user_id] = None
        /\ frame[t].ret = None
        /\ v # frame[t].args.user_id
        /\ written[v] # None /\ ~written[v].evicted /\ GetResult(v) # None

\* the links of the cache that belong to user_id
LinksOf(c, user_id) == SelectSeq(c, LAMBDA l : l.key = get_user_posts_cache_key(user_id))

\* C12: the cache never holds two entries of one user, and a
\* cache_user_posts(U, L2) on a cache that holds an entry of U leaves exactly
\* one entry of U, with payload L2 and expiry now + 300, and no more entries
\* than before
C12_OneEntryPerUser ==
    /\ [](\A u \in Users : Len(LinksOf(posts_cache, u)) <= 1)
    /\ [][\A t \in Threads, u \in Users :
            (/\ cache_user_posts(t) /\ frame[t].user_id = u
             /\ Len(LinksOf(posts_cache, u)) >= 1)
            => /\ LinksOf(posts_cache', u) =
                     <<[key |-> get_user_posts_cache_key(u),
                        value |-> CacheEntry(frame[t].posts_data, now),
                        expires |-> now + ttl]>>
               /\ GetResult(u)'.data = frame[t].posts_data
               /\ GetResult(u)'.expires_at = now + ttl
               /\ Len(posts_cache') <= Len(posts_cache)
               /\ Len(Live') <= Len(Live) + (IF GetResult(u) = None THEN 1 ELSE 0)]_vars

\* a cache_user_posts(U, .) has run on a full cache of live entries at a
\* later time than the oldest of them: U's entry is the one just stored
C12_Witness ==
    \E t \in Threads, u \in Users :
        /\ AtExit(t, "cache_user_posts") /\ frame[t].args.user_id = u
        /\ now > 0
        /\ Len(posts_cache) = maxsize
        /\ Len(LinksOf(posts_cache, u)) = 1
        /\ GetResult(u) = CacheEntry(frame[t].args.posts_data, now)
        /\ \A i \in DOMAIN posts_cache : posts_cache[i].expires > now
        /\ posts_cache[1].expires < now + ttl

\* C13, as the claim states it: get_cached_posts(U) leaves the live entries -
\* keys, payloads, expiry times - and the order in which they will be evicted
\* as they were
C13_GetChangesNothing_Original ==
    [][\A t \in Threads : get_cached_posts(t) => Live' = Live]_vars

\* C13, amended: get_cached_posts(U) leaves the live keys, their payloads and
\* their expiry times as they were; a hit makes U's entry the last to be
\* evicted and keeps the order of the other entries, a miss keeps the order
C13_GetChangesNothing ==
    [][\A t \in Threads, u \in Users :
          (get_cached_posts(t) /\ frame[t].user_id = u)
          => LET key == get_user_posts_cache_key(u)
             IN  /\ Elements(Live') = Elements(Live)
                 /\ Len(Live') = Len(Live)
                 /\ Without(Live', key) = Without(Live, key)
                 /\ \A v \in Users : GetResult(v)' = GetResult(v)
                 /\ IF GetResult(u) # None
                    THEN Live'[Len(Live')].key = key
                    ELSE Live' = Live]_vars

\* a hit has moved an entry behind one that was stored later
C13_Witness ==
    \E t \in Threads :
        /\ AtExit(t, "get_cached_posts")
        /\ frame[t].ret # None
        /\ Len(Live) = maxsize
        /\ Live[Len(Live)].key = get_user_posts_cache_key(frame[t].args.user_id)
        /\ Live[Len(Live)].value = frame[t].ret
        /\ Live[Len(Live)].expires < Live[1].expires

\* C19: the live entries lie in the cache in the order of their last use,
\* least recently used first, where a cache_user_posts and a get_cached_posts
\* that found the entry are the uses; so the entry popitem removes when a new
\* key is put into a full cache is the least recently used live one, and it
\* is determined by the sequence of operations
C19_EvictsLeastRecentlyUsed ==
    /\ Len(Live) = Len(recent)
    /\ \A i \in DOMAIN Live : Live[i].key = get_user_posts_cache_key(recent[i])
    /\ \A u \in Users :
          (written[u] # None /\ written[u].evicted)
          => \A i \in DOMAIN recent : recent[i] # u

\* an entry stored later has been evicted while one stored earlier, and
\* looked up since, is still there
C19_Witness ==
    \E t \in Threads, u, v \in Users :
        /\ AtExit(t, "cache_user_posts")
        /\ frame[t].args.user_id \notin {u, v}
        /\ written[frame[t].args.user_id] # None
        /\ written[frame[t].args.user_id].at = now
        /\ written[v] # None /\ written[v].evicted
        /\ written[u] # None /\ ~written[u].evicted
        /\ written[u].at < written[v].at
        /\ GetResult(u) # None
        /\ recent = <<u, frame[t].args.user_id>>

\* C15: when clear_all_cache() has run, whatever the cache held, the cache is
\* empty: get_cache_info() reports cache_size 0 and get_cached_posts(U)
\* returns None for every user U
C15_ClearEmpties ==
    \A t \in Threads :
        AtExit(t, "clear_all_cache")
        => /\ posts_cache = <<>>
           /\ CacheInfo(posts_cache, now).cache_size = 0
           /\ \A u \in Users : GetResult(u) = None

C15_Witness ==
    \E t \in Threads :
        /\ AtExit(t, "clear_all_cache")
        /\ CacheInfo(posts_cache, now).cache_size = 0
        /\ \A u \in Users : GetResult(u) = None /\ written[u] = None
        /\ now > 0

\* C16: get_cache_info() leaves the entries a lookup can find as they were -
\* every get_cached_posts(U) returns after it what it returned before - and
\* reports max_size = maxsize, ttl_seconds = 300 and as cache_size the number
\* of users for which get_cached_posts returns an entry
C16_InfoReadOnly ==
    [][\A t \in Threads :
          get_cache_info(t)
          => /\ Live' = Live
             /\ \A u \in Users : GetResult(u)' = GetResult(u)
             /\ frame'[t].ret.max_size = maxsize
             /\ frame'[t].ret.ttl_seconds = ttl
             /\ frame'[t].ret.cache_size =
                    Cardinality({u \in Users : GetResult(u) # None})]_vars

C16_Witness ==
    \E t \in Threads, u \in Users :
        /\ AtExit(t, "get_cache_info")
        /\ frame[t].ret.cache_size = 1
        /\ frame[t].ret.current_time = now
        /\ now = MaxTime
        /\ GetResult(u) # None
        /\ Cardinality({v \in Users : GetResult(v) # None}) = 1

\* C17: every cache operation ends and releases cache_lock, on the normal
\* path and on the KeyError path: a thread outside a section never holds the
\* lock, and under fair scheduling every thread that has called an operation
\* and waits for the lock gets through its section and returns
C17_TerminatesAndReleases ==
    /\ [](\A t \in Threads : ~InSection(t) => cache_lock # t)
    /\ \A t \in Threads : (pc[t] = "wait") ~> (pc[t] = "idle")

\* a section has taken its KeyError path while another thread waits for the lock
C17_Witness ==
    \E t1, t2 \in Threads :
        /\ AtExit(t1, "invalidate_user_posts_cache")
        /\ frame[t1].caught = "KeyError"
        /\ cache_lock = t1
        /\ pc[t2] = "wait"

\* C21: invalidate_user_posts_cache(U), and cache_user_posts(U, L) on a cache
\* that holds fewer than maxsize live entries, leave the entry of every other
\* user V as it was: get_cached_posts(V) returns the same payload with the
\* same expiry before and after
C21_OtherUsersUntouched ==
    [][\A t \in Threads, u \in Users :
          (/\ pc[t] = "locked"
           /\ frame[t].op \in {"invalidate_user_posts_cache", "cache_user_posts"}
           /\ frame[t].user_id = u
           /\ \/ invalidate_user_posts_cache(t)
              \/ cache_user_posts(t) /\ Len(Live) < maxsize)
          => \A v \in Users \ {u} : GetResult(v)' = GetResult(v)]_vars

\* an invalidate has removed the live entry of its user while another user's
\* entry, stored earlier, is still returned
C21_Witness ==
    \E t \in Threads, v \in Users :
        /\ AtExit(t, "invalidate_user_posts_cache")
        /\ frame[t].caught = "no"
        /\ v # frame[t].args.user_id
        /\ written[v] # None /\ ~written[v].evicted /\ written[v].at < now
        /\ GetResult(v) = CacheEntry(written[v].data, written[v].at)

\* C25: the keys of distinct users differ, every link of the cache is the
\* link of one user, and what get_cached_posts(U) returns is the value of the
\* link keyed for U, which is the entry stored by the last
\* cache_user_posts(U, .): a lookup for U never returns what was stored for V
C25_NoCrossUserEntry ==
    /\ \A u, v \in Users :
          u # v => get_user_posts_cache_key(u) # get_user_posts_cache_key(v)
    /\ \A i \in DOMAIN posts_cache :
          Cardinality({u \in Users : get_user_posts_cache_key(u) = posts_cache[i].key}) = 1
    /\ \A u \in Users :
          LET got == GetResult(u)
          IN  got # None
              => /\ \E i \in DOMAIN posts_cache :
                       /\ posts_cache[i].key = get_user_posts_cache_key(u)
                       /\ posts_cache[i].value = got
                 /\ written[u] # None
                 /\ got.data = written[u].data /\ got.cached_at = written[u].at
    /\ \A t \in Threads :
          (AtExit(t, "get_cached_posts") /\ frame[t].ret # None)
          => \E i \in DOMAIN posts_cache :
                /\ posts_cache[i].key = get_user_posts_cache_key(frame[t].args.user_id)
                /\ posts_cache[i].value = frame[t].ret

\* a lookup for U has returned U's entry while another user holds an entry
\* with a different payload, and a lookup for a third user finds nothing
C25_Witness ==
    \E t \in Threads, u, v, w \in Users :
        /\ AtExit(t, "get_cached_posts") /\ frame[t].args.user_id = u
        /\ frame[t].ret # None
        /\ written[u] # None /\ frame[t].ret.data = written[u].data
        /\ v # u /\ GetResult(v) # None
        /\ GetResult(v).data # frame[t].ret.data
        /\ w \notin {u, v} /\ GetResult(w) = None

\* C26: a lookup never extends the life of an entry: every link expires 300 s
\* after the cache_user_posts that stored it, however often it has been
\* looked up, and from that time on get_cached_posts returns None for it
C26_ReadDoesNotExtend ==
    /\ \A i \in DOMAIN posts_cache :
          /\ posts_cache[i].expires = posts_cache[i].value.cached_at + ttl
          /\ posts_cache[i].value.expires_at = posts_cache[i].expires
    /\ \A u \in Users :
          (\A i \in DOMAIN posts_cache :
              posts_cache[i].key = get_user_posts_cache_key(u)
              => now >= posts_cache[i].value.cached_at + ttl)
          => GetResult(u) = None

\* an entry that was looked up with success after a later put of another user
\* (it lies behind that user's entry) has reached its expiry, and the lookup
\* that has just run returned None
C26_Witness ==
    \E t \in Threads, i, j \in DOMAIN posts_cache :
        /\ AtExit(t, "get_cached_posts") /\ frame[t].ret = None
        /\ posts_cache[j].key = get_user_posts_cache_key(frame[t].args.user_id)
        /\ i < j
        /\ posts_cache[i].value.cached_at > posts_cache[j].value.cached_at
        /\ now >= posts_cache[j].value.cached_at + ttl

----------------------------------------------------------------------------
(* Properties of the post service (checked under SpecService) *)

Running(t, op) == pc[t] # "idle" /\ frame[t].op = op

\* C1: once create_post(U) has committed and returned, the cache entry of U
\* is absent or holds a list that contains the new post (while the post exists)
C1_NoStaleListAfterCreate ==
    \A id \in acked :
        posts[id] # 0
        => \/ GetResult(posts[id]) = None
           \/ id \in Elements(GetResult(posts[id]).data.posts)

\* C9: in create_post and delete_post the invalidation never runs before the
\* commit, and no call that committed a change ends without having invalidated
C9_InvalidateAfterCommit ==
    \A t \in Threads :
        (Running(t, "create_post") \/ Running(t, "delete_post"))
        => /\ frame[t].invalidated => frame[t].committed
           /\ (pc[t] = "done" /\ frame[t].committed) => frame[t].invalidated

\* C10: the check-then-populate sequence of get_user_posts is exclusive: no
\* two calls for the same user have both missed and queried storage with
\* their cache_user_posts still to come, and no invalidate_user_posts_cache(U)
\* falls between a call's storage query and its cache_user_posts
C10_CheckThenPopulateExclusive ==
    /\ \A t1, t2 \in Threads :
          (t1 # t2 /\ pc[t1] = "get_populate" /\ pc[t2] = "get_populate")
          => frame[t1].user_id # frame[t2].user_id
    /\ \A t \in Threads : pc[t] = "get_populate" => ~frame[t].raced

\* C14: a get_user_posts in which a cache operation raised still ends with
\* the list read from storage, not with an error
C14_CacheFaultIsMiss ==
    \A t \in Threads :
        (Running(t, "get_user_posts") /\ pc[t] = "done" /\ frame[t].fault # "no")
        => /\ frame[t].status = "ok"
           /\ frame[t].queried = 1
           /\ frame[t].result # None

\* C18: get_user_posts(U) looks in the cache first.  On a hit it ends with the
\* cached payload, has not queried storage and has left the entries of the
\* cache as they were.  On a miss it goes on to query storage once, stores
\* what the query returned with cache_user_posts(U, .) and returns the same.
\* (The steps of a call are told by its position: from "idle" into a
\* get_user_posts frame is the lookup, from "get_query" the storage query,
\* from "get_populate" the cache_user_posts and the return.)
C18_ReadThrough ==
    [][\A t \in Threads :
          /\ (/\ pc[t] = "idle" /\ pc'[t] # "idle"
              /\ frame'[t].op = "get_user_posts" /\ frame'[t].fault = "no")
             => LET u == frame'[t].user_id
                IN  IF GetResult(u) # None
                    THEN /\ pc'[t] = "done" /\ frame'[t].status = "ok"
                         /\ frame'[t].result = GetResult(u).data
                         /\ frame'[t].queried = 0
                         /\ Elements(posts_cache') = Elements(posts_cache)
                         /\ posts' = posts
                    ELSE /\ pc'[t] = "get_query" /\ frame'[t].queried = 0
                         /\ posts_cache' = posts_cache
          /\ (pc[t] = "get_query" /\ pc'[t] # "get_query")
             => /\ pc'[t] = "get_populate"
                /\ frame'[t].queried = 1
                /\ frame'[t].local = QueryUserPosts(posts, frame[t].user_id)
                /\ posts_cache' = posts_cache
          /\ (pc[t] = "get_populate" /\ pc'[t] # "get_populate" /\ frame'[t].fault = "no")
             => /\ pc'[t] = "done" /\ frame'[t].status = "ok"
                /\ frame'[t].queried = 1
                /\ frame'[t].result = frame[t].local
                /\ GetResult(frame[t].user_id)' = CacheEntry(frame[t].local, now)]_vars

\* a call that missed, queried and stored a list with a post has returned it
C18_Witness ==
    \E t \in Threads :
        /\ Running(t, "get_user_posts") /\ pc[t] = "done"
        /\ frame[t].status = "ok" /\ frame[t].queried = 1
        /\ frame[t].result = PostsListResponse(<<1>>)
        /\ GetResult(frame[t].user_id) = CacheEntry(frame[t].result, now)

\* C20: when the last commit that changed the posts of any user is 300 s or
\* more old and no create_post or delete_post is under way, a
\* get_user_posts(U) that starts now returns the posts of U as they are in
\* storage: the entry a lookup finds for U, if any, holds that list
C20_StalenessBoundedByTTL ==
    (/\ \E T \in changed_at : now >= T + ttl
     /\ \A t \in Threads : ~Running(t, "create_post") /\ ~Running(t, "delete_post"))
    => \A u \in Users :
          GetResult(u) # None => GetResult(u).data = QueryUserPosts(posts, u)

\* C23: a create_post or delete_post that ends with an error (HTTP 400 or
\* 500) has committed nothing
C23_ErrorMeansNoCommit ==
    \A t \in Threads :
        (/\ Running(t, "create_post") \/ Running(t, "delete_post")
         /\ pc[t] = "done" /\ frame[t].status \in {"400", "500"})
        => ~frame[t].committed

\* C24: delete_post(post_id, U) for a post that is not there or is another
\* user's returns False at once: no row is deleted, nothing is committed and
\* the cache is left exactly as it was, with no invalidation
C24_DeleteMissIsNoop ==
    [][\A t \in Threads :
          (/\ pc[t] = "idle" /\ pc'[t] # "idle"
           /\ frame'[t].op = "delete_post"
           /\ posts[frame'[t].post_id] # frame'[t].user_id)
          => /\ pc'[t] = "done" /\ frame'[t].status = "ok"
             /\ frame'[t].result = FALSE
             /\ ~frame'[t].committed /\ ~frame'[t].invalidated
             /\ posts' = posts
             /\ posts_cache' = posts_cache]_vars

\* a delete_post for another user's post has returned False; the post is
\* still there and both users' cached lists are still returned
C24_Witness ==
    \E t \in Threads :
        /\ Running(t, "delete_post") /\ pc[t] = "done"
        /\ frame[t].status = "ok" /\ frame[t].result = FALSE
        /\ posts[frame[t].post_id] \notin {0, frame[t].user_id}
        /\ GetResult(frame[t].user_id) # None
        /\ GetResult(posts[frame[t].post_id]) # None
        /\ GetResult(posts[frame[t].post_id]).data = PostsListResponse(<<frame[t].post_id>>)

\* C27: a cached empty list is a hit.  The cache_user_posts of a
\* get_user_posts that found no posts leaves an entry a lookup finds, and a
\* get_user_posts(U) whose lookup finds an unexpired entry with the empty
\* list ends with that list (total_count 0) and has not queried storage
C27_EmptyListIsHit ==
    [][\A t \in Threads :
          /\ (/\ pc[t] = "idle" /\ pc'[t] # "idle"
              /\ frame'[t].op = "get_user_posts" /\ frame'[t].fault = "no")
             => LET cached_data == TTLCache_get(posts_cache,
                                       get_user_posts_cache_key(frame'[t].user_id), now)
                IN  (cached_data # None /\ cached_data.data = PostsListResponse(<<>>))
                    => /\ pc'[t] = "done" /\ frame'[t].status = "ok"
                       /\ frame'[t].result = PostsListResponse(<<>>)
                       /\ frame'[t].result.total_count = 0
                       /\ frame'[t].queried = 0
          /\ (/\ pc[t] = "get_populate" /\ pc'[t] # "get_populate"
              /\ frame'[t].fault = "no" /\ frame[t].local = PostsListResponse(<<>>))
             => /\ GetResult(frame[t].user_id)' # None
                /\ GetResult(frame[t].user_id)'.data = PostsListResponse(<<>>)]_vars

\* a get_user_posts has been answered from an empty list cached earlier
C27_Witness ==
    \E t \in Threads :
        /\ Running(t, "get_user_posts") /\ pc[t] = "done"
        /\ frame[t].status = "ok" /\ frame[t].queried = 0
        /\ frame[t].result = PostsListResponse(<<>>)
        /\ GetResult(frame[t].user_id) # None
        /\ GetResult(frame[t].user_id).data = PostsListResponse(<<>>)
        /\ GetResult(frame[t].user_id).cached_at < now

----------------------------------------------------------------------------
(* Properties of the post service run one request at a time (checked under *)
(* SpecSerial)                                                             *)

\* C22: when the requests run one at a time and none fails, every
\* get_user_posts(U) returns exactly the committed posts of U, and between
\* requests every list a lookup finds in the cache is the list storage
\* would return
C22_SerialReadsAreCurrent ==
    /\ \A t \in Threads :
          (Running(t, "get_user_posts") /\ pc[t] = "done")
          => /\ frame[t].status = "ok"
             /\ frame[t].result = QueryUserPosts(posts, frame[t].user_id)
    /\ (\A t \in Threads : pc[t] = "idle")
       => \A u \in Users :
             GetResult(u) # None => GetResult(u).data = QueryUserPosts(posts, u)

\* after a create and a delete of the post, a get_user_posts has been
\* answered from the cache with the empty list
C22_Witness ==
    \E t \in Threads :
        /\ Running(t, "get_user_posts") /\ pc[t] = "done"
        /\ frame[t].queried = 0
        /\ frame[t].result = PostsListResponse(<<>>)
        /\ acked # {}
        /\ \A i \in PostIds : posts[i] = 0
        /\ \E T \in changed_at : T > 0

====
